---- MODULE Spec2Model ----
(***************************************************************************)
(* Task & Workflow Automation Agent (src/main.py): the Streamlit session   *)
(* state, the AI client adapter (configure_gemini, get_ai_response), the   *)
(* mock generators (generate_report_data, execute_workflow) and the button *)
(* handlers of the page script.  One action is one page run: Streamlit     *)
(* re-executes the whole script, top to bottom, with at most one button    *)
(* reporting True.                                                         *)
(***************************************************************************)
EXTENDS Integers, Sequences, FiniteSets, TLC

VARIABLES
    gemini_configured,  \* st.session_state.gemini_configured
    model,              \* st.session_state.model (NoValue while the key is absent)
    model_name,         \* st.session_state.model_name (NoValue while absent)
    task_history,       \* st.session_state.task_history
    workflows,          \* st.session_state.workflows
    chat_history,       \* st.session_state.chat_history
    current_report,     \* st.session_state.current_report (NoReport while absent)
    button,             \* the button that was True in the last page run
    shownTasksRun,      \* st.metric("Tasks Run", ...) as drawn in the last page run
    shownWorkflows,     \* st.metric("Workflows", ...) as drawn in the last page run
    shownRecent,        \* the Recent Activity captions drawn in the last page run
    messages,           \* st.warning / st.error / st.success / st.info of the last page run
    calls,              \* adapter and generator functions called in the last page run
    remote,             \* generate_content invocations of the last page run
    configRet,          \* return value of configure_gemini in the last page run
    response,           \* return value of get_ai_response in the last page run
    steps,              \* return value of execute_workflow in the last page run
    wfName,             \* pure-function harness: workflow_name argument
    wfParams,           \* pure-function harness: params argument
    wfResult,           \* pure-function harness: result of execute_workflow
    wfDone              \* pure-function harness: the call has returned

sessionVars == <<gemini_configured, model, model_name, task_history, workflows,
                 chat_history, current_report>>
runVars == <<button, shownTasksRun, shownWorkflows, shownRecent, messages, calls,
             remote, configRet, response, steps>>
pureVars == <<wfName, wfParams, wfResult, wfDone>>
vars == <<sessionVars, runVars, pureVars>>

----------------------------------------------------------------------------
(* Bounds of the model *)

\* The code never limits the three session lists.  Sessions that hold chat or
\* scheduled-workflow entries are explored up to MaxEntries entries in all;
\* sessions that hold task entries only are explored up to MaxTasks of them,
\* which is more than the Recent Activity list shows.
MaxEntries == 3
MaxTasks == 6

\* the slice [-5:] of the Recent Activity loop
RecentShown == 5

NoValue == "<absent>"

\* values sampled for the widgets
ApiKeys == {"", "AIza-key"}
Prompts == {"", "update my sales sheet every Monday"}
Topics == {"", "Q3 Sales Review"}
Times == {"09:41"}                      \* datetime.now().strftime("%H:%M")
ReportTypesTried == {"Sales Report"}
UpdateTypesTried == {"Append New Data"}
SchedulesTried == {"Daily"}
SourcesTried == {"CRM System"}
StylesTried == {"Professional"}
SlidesTried == {"5"}

\* what the remote endpoint does with one completion request
RemoteOutcomes == {[raises |-> FALSE, text |-> "Here are the steps."],
                   [raises |-> TRUE, text |-> "429 quota exceeded"]}

----------------------------------------------------------------------------
(* AI client adapter *)

models_to_try == <<"gemini-2.5-flash", "gemini-2.0-flash", "gemini-1.5-flash-latest">>

TestPrompt == "Say 'connected' in one word"

PleaseConfigure == "Please configure your Gemini API key first."
ErrorPrefix == "Error getting AI response: "
NoModelAttribute == "st.session_state has no attribute \"model\""

\* genai.GenerativeModel(model_name): the handle of one model
GenerativeModel(name) == "GenerativeModel(" \o name \o ")"

\* the exception a candidate raises for a key it does not accept
KeyRejected == "400 API key not valid"

\* one probe of candidate i
Probe(i, accepted) ==
    [model |-> GenerativeModel(models_to_try[i]), prompt |-> TestPrompt,
     ok |-> accepted, exc |-> IF accepted THEN "" ELSE KeyRejected]

RECURSIVE ProbeFrom_noReturn(_, _)
\* the loop without its return: every candidate is probed and the last one
\* that accepts is recorded
ProbeFrom_noReturn(i, accepts) ==
    IF i > Len(models_to_try) THEN [probes |-> <<>>, chosen |-> 0]
    ELSE LET rest == ProbeFrom_noReturn(i + 1, accepts)
         IN  [probes |-> <<Probe(i, models_to_try[i] \in accepts)>> \o rest.probes,
              chosen |-> IF rest.chosen # 0 THEN rest.chosen
                         ELSE IF models_to_try[i] \in accepts THEN i ELSE 0]

RECURSIVE ProbeFrom(_, _)
\* the for loop of configure_gemini from candidate i on; accepts is the set of
\* candidates whose constructor and test prompt raise nothing for this key.
\* Result: the probes made and the index of the candidate recorded (0: none).
ProbeFrom(i, accepts) ==
    IF i > Len(models_to_try) THEN [probes |-> <<>>, chosen |-> 0]
    ELSE IF models_to_try[i] \in accepts
         THEN [probes |-> <<Probe(i, TRUE)>>, chosen |-> i]
         ELSE LET rest == ProbeFrom(i + 1, accepts)
              IN  [probes |-> <<Probe(i, FALSE)>> \o rest.probes, chosen |-> rest.chosen]

ConfigureFailed == "Failed to configure Gemini: "
NoCompatibleModel == "No compatible Gemini model found. Please check your API key."
SdkError == "invalid configuration"     \* str(e) of genai.configure raising

\* configure_gemini clearing the flag when every candidate rejects the key
configure_gemini_resetting(api_key, sdkRaises, accepts) ==
    LET p == ProbeFrom(1, accepts)
    IN  IF sdkRaises
        THEN [session |-> [configured |-> gemini_configured, model |-> model,
                           name |-> model_name],
              ret |-> "False", probes |-> <<>>,
              errors |-> <<[kind |-> "error", text |-> ConfigureFailed \o SdkError]>>]
        ELSE IF p.chosen = 0
        THEN [session |-> [configured |-> FALSE, model |-> model, name |-> model_name],
              ret |-> "False", probes |-> p.probes,
              errors |-> <<[kind |-> "error", text |-> NoCompatibleModel]>>]
        ELSE [session |-> [configured |-> TRUE,
                           model |-> GenerativeModel(models_to_try[p.chosen]),
                           name |-> models_to_try[p.chosen]],
              ret |-> "True", probes |-> p.probes, errors |-> <<>>]

\* configure_gemini setting the flag once genai.configure has returned,
\* before any candidate has answered
configure_gemini_flagFirst(api_key, sdkRaises, accepts) ==
    LET p == ProbeFrom(1, accepts)
    IN  IF sdkRaises
        THEN [session |-> [configured |-> gemini_configured, model |-> model,
                           name |-> model_name],
              ret |-> "False", probes |-> <<>>,
              errors |-> <<[kind |-> "error", text |-> ConfigureFailed \o SdkError]>>]
        ELSE IF p.chosen = 0
        THEN [session |-> [configured |-> TRUE, model |-> model, name |-> model_name],
              ret |-> "False", probes |-> p.probes,
              errors |-> <<[kind |-> "error", text |-> NoCompatibleModel]>>]
        ELSE [session |-> [configured |-> TRUE,
                           model |-> GenerativeModel(models_to_try[p.chosen]),
                           name |-> models_to_try[p.chosen]],
              ret |-> "True", probes |-> p.probes, errors |-> <<>>]

\* configure_gemini(api_key): sdkRaises is genai.configure raising.  Gives the
\* session fields after the call, the return value, the probes and st.error.
configure_gemini(api_key, sdkRaises, accepts) ==
    LET keep == [configured |-> gemini_configured, model |-> model, name |-> model_name]
        p == ProbeFrom(1, accepts)
    IN  IF sdkRaises
        THEN [session |-> keep, ret |-> "False", probes |-> <<>>,
              errors |-> <<[kind |-> "error", text |-> ConfigureFailed \o SdkError]>>]
        ELSE IF p.chosen = 0
        THEN [session |-> keep, ret |-> "False", probes |-> p.probes,
              errors |-> <<[kind |-> "error", text |-> NoCompatibleModel]>>]
        ELSE [session |-> [configured |-> TRUE,
                           model |-> GenerativeModel(models_to_try[p.chosen]),
                           name |-> models_to_try[p.chosen]],
              ret |-> "True", probes |-> p.probes, errors |-> <<>>]

\* the f-string of get_ai_response (the instruction lines are shortened)
full_prompt(prompt, context) ==
    "You are a Task & Workflow Automation Agent. Context: " \o context
       \o " User Request: " \o prompt \o " Provide a helpful, actionable response."

\* one generate_content invocation on the stored handle
Completion(prompt, context, outcome) ==
    [model |-> model, prompt |-> full_prompt(prompt, context), ok |-> ~outcome.raises,
     exc |-> IF outcome.raises THEN outcome.text ELSE ""]

\* get_ai_response without the gemini_configured test
get_ai_response_unguarded(prompt, context, outcome) ==
    IF model = NoValue
    THEN [text |-> ErrorPrefix \o NoModelAttribute, remote |-> <<>>,
          calls |-> <<"get_ai_response">>]
    ELSE [text |-> IF outcome.raises THEN ErrorPrefix \o outcome.text ELSE outcome.text,
          remote |-> <<Completion(prompt, context, outcome)>>,
          calls |-> <<"get_ai_response">>]

\* get_ai_response returning str(e) alone from the except branch
get_ai_response_bareError(prompt, context, outcome) ==
    IF ~gemini_configured
    THEN [text |-> PleaseConfigure, remote |-> <<>>, calls |-> <<"get_ai_response">>]
    ELSE [text |-> outcome.text,
          remote |-> <<Completion(prompt, context, outcome)>>,
          calls |-> <<"get_ai_response">>]

\* get_ai_response(prompt, context): outcome is what generate_content does.
\* Gives the returned text, the generate_content invocations made and the
\* adapter functions entered.
get_ai_response(prompt, context, outcome) ==
    IF ~gemini_configured
    THEN [text |-> PleaseConfigure, remote |-> <<>>, calls |-> <<"get_ai_response">>]
    ELSE IF model = NoValue
    THEN [text |-> ErrorPrefix \o NoModelAttribute, remote |-> <<>>,
          calls |-> <<"get_ai_response">>]
    ELSE [text |-> IF outcome.raises THEN ErrorPrefix \o outcome.text ELSE outcome.text,
          remote |-> <<Completion(prompt, context, outcome)>>,
          calls |-> <<"get_ai_response">>]

\* the prompt f-string of create_presentation_outline (the JSON sample is left out)
OutlinePrompt(topic) ==
    "Create a professional presentation outline for: " \o topic
       \o " Include 5-7 slides with relevant content."

\* create_presentation_outline asking again when the first answer is an error
create_presentation_outline_retry(topic, outcome) ==
    LET r == get_ai_response(OutlinePrompt(topic), "", outcome)
    IN  IF outcome.raises
        THEN [text |-> r.text, remote |-> r.remote \o r.remote,
              calls |-> <<"create_presentation_outline">> \o r.calls \o r.calls]
        ELSE [text |-> r.text, remote |-> r.remote,
              calls |-> <<"create_presentation_outline">> \o r.calls]

\* create_presentation_outline(topic)
create_presentation_outline(topic, outcome) ==
    LET r == get_ai_response(OutlinePrompt(topic), "", outcome)
    IN  [text |-> r.text, remote |-> r.remote,
         calls |-> <<"create_presentation_outline">> \o r.calls]

----------------------------------------------------------------------------
(* Mock data generators *)

\* generate_report_data(report_type): the columns and the row count of the
\* DataFrame; the cells are random numbers in fixed ranges
generate_report_data(report_type) ==
    IF report_type = "Sales Report"
    THEN [columns |-> <<"Month", "Revenue", "Units Sold", "Growth %">>, rows |-> 6]
    ELSE IF report_type = "HR Report"
    THEN [columns |-> <<"Department", "Headcount", "Open Positions", "Attrition %">>, rows |-> 5]
    ELSE IF report_type = "Finance Report"
    THEN [columns |-> <<"Category", "Q1", "Q2", "Q3", "Q4">>, rows |-> 5]
    ELSE [columns |-> <<"Column1", "Column2">>, rows |-> 3]

Succeeded(descs) == [i \in 1..Len(descs) |-> <<descs[i], "success">>]

\* sub in s
Contains(s, sub) ==
    \E i \in 1..(Len(s) - Len(sub) + 1) : SubSeq(s, i, i + Len(sub) - 1) = sub

\* execute_workflow matching by keyword, as the parameter form of tab 4 does
execute_workflow_byKeyword(workflow_name, params) ==
    IF Contains(workflow_name, "Onboarding")
    THEN Succeeded(<<"Create employee record", "Generate credentials", "Assign to department",
                     "Send welcome email", "Schedule orientation">>)
    ELSE IF Contains(workflow_name, "Sales")
    THEN Succeeded(<<"Fetch CRM data", "Update deal stages", "Calculate forecasts",
                     "Generate pipeline report", "Notify sales managers">>)
    ELSE IF Contains(workflow_name, "Invoice")
    THEN Succeeded(<<"Extract invoice data", "Validate amounts", "Match with PO",
                     "Route for approval", "Update accounting system">>)
    ELSE Succeeded(<<"Reconcile accounts", "Post adjusting entries", "Generate trial balance",
                     "Create financial statements", "Archive documents">>)

\* execute_workflow(workflow_name, params)
execute_workflow(workflow_name, params) ==
    IF workflow_name = "Employee Onboarding"
    THEN Succeeded(<<"Create employee record", "Generate credentials", "Assign to department",
                     "Send welcome email", "Schedule orientation">>)
    ELSE IF workflow_name = "Sales Pipeline Update"
    THEN Succeeded(<<"Fetch CRM data", "Update deal stages", "Calculate forecasts",
                     "Generate pipeline report", "Notify sales managers">>)
    ELSE IF workflow_name = "Invoice Processing"
    THEN Succeeded(<<"Extract invoice data", "Validate amounts", "Match with PO",
                     "Route for approval", "Update accounting system">>)
    ELSE IF workflow_name = "Monthly Close"
    THEN Succeeded(<<"Reconcile accounts", "Post adjusting entries", "Generate trial balance",
                     "Create financial statements", "Archive documents">>)
    ELSE <<>>

----------------------------------------------------------------------------
(* Presentation layer *)

\* seq[-n:]
LastN(seq, n) ==
    IF Len(seq) <= n THEN seq ELSE SubSeq(seq, Len(seq) - n + 1, Len(seq))

\* s.split(sep, 1)[1] for an s that holds sep
AfterFirst(s, sep) ==
    LET at == {i \in 1..(Len(s) - Len(sep) + 1) : SubSeq(s, i, i + Len(sep) - 1) = sep}
        i == CHOOSE k \in at : \A m \in at : k <= m
    IN  SubSeq(s, i + Len(sep), Len(s))

\* s.rsplit(sep, 1)[0]
BeforeLast(s, sep) ==
    LET at == {i \in 1..(Len(s) - Len(sep) + 1) : SubSeq(s, i, i + Len(sep) - 1) = sep}
    IN  IF at = {} THEN s
        ELSE SubSeq(s, 1, (CHOOSE k \in at : \A m \in at : k >= m) - 1)

\* the workflows table of tab 4 (the icons are spelled out)
WorkflowTable ==
    <<[name |-> "Employee Onboarding", icon |-> ":bust:", dept |-> "HR"],
      [name |-> "Sales Pipeline Update", icon |-> ":moneybag:", dept |-> "Sales"],
      [name |-> "Invoice Processing", icon |-> ":page:", dept |-> "Finance"],
      [name |-> "Monthly Close", icon |-> ":calendar:", dept |-> "Finance"]>>

\* the radio options f"{w['icon']} {w['name']} ({w['dept']})"
RadioLabel(w) == w.icon \o " " \o w.name \o " (" \o w.dept \o ")"

\* workflow_name = selected_workflow.split(" ", 1)[1].rsplit(" (", 1)[0]
WorkflowNameOf(selected_workflow) == BeforeLast(AfterFirst(selected_workflow, " "), " (")

\* workflow_name for each radio option of the table
WorkflowNames == [i \in 1..Len(WorkflowTable) |-> WorkflowNameOf(RadioLabel(WorkflowTable[i]))]

\* the rows of the table whose radio option is tried
WorkflowsTried == {2}

\* "current_report" not in st.session_state
NoReport == [columns |-> <<>>, rows |-> 0]

\* a log that keeps the entries it shows and drops the older ones
LogTask_keepsRecent(history, entry) ==
    LET all == Append(history, entry)
    IN  IF Len(all) <= RecentShown THEN all
        ELSE SubSeq(all, Len(all) - RecentShown + 1, Len(all))

\* st.session_state.task_history.append(entry)
LogTask(history, entry) == Append(history, entry)

TaskEntry(name, t) == [name |-> name, time |-> t]

Entries == Len(task_history) + Len(chat_history) + Len(workflows)

\* the exploration bounds, as guards of the runs that append
CanLogTask ==
    \/ Entries < MaxEntries
    \/ chat_history = <<>> /\ workflows = <<>> /\ Len(task_history) < MaxTasks
CanAppendOther == Entries < MaxEntries

Message(kind, text) == [kind |-> kind, text |-> text]

\* the sidebar below the Configure API button (Quick Stats, Recent Activity);
\* it is drawn before any tab's handler runs
SidebarTasksRun == Len(task_history)
SidebarWorkflows == Len(workflows)
SidebarRecent == LastN(task_history, RecentShown)

RenderSidebar ==
    /\ shownTasksRun' = SidebarTasksRun
    /\ shownWorkflows' = SidebarWorkflows
    /\ shownRecent' = SidebarRecent

\* a page run that calls neither adapter nor generator
NoAdapterCall ==
    /\ remote' = <<>>
    /\ configRet' = NoValue
    /\ response' = NoValue
    /\ steps' = <<>>

Init ==
    /\ gemini_configured = FALSE
    /\ model = NoValue
    /\ model_name = NoValue
    /\ task_history = <<>>
    /\ workflows = <<>>
    /\ chat_history = <<>>
    /\ current_report = NoReport
    /\ button = NoValue
    /\ shownTasksRun = 0
    /\ shownWorkflows = 0
    /\ shownRecent = <<>>
    /\ messages = <<>>
    /\ calls = <<>>
    /\ remote = <<>>
    /\ configRet = NoValue
    /\ response = NoValue
    /\ steps = <<>>
    /\ wfName = NoValue
    /\ wfParams = {}
    /\ wfResult = <<>>
    /\ wfDone = FALSE

\* a page run with no button pressed (any other widget changed)
Rerun ==
    /\ button' = NoValue
    /\ RenderSidebar
    /\ messages' = <<>>
    /\ calls' = <<>>
    /\ NoAdapterCall
    /\ UNCHANGED <<sessionVars, pureVars>>

\* the candidates as a set
Candidates == {models_to_try[i] : i \in 1..Len(models_to_try)}

\* what the SDK and the endpoint do with one key: genai.configure raises, or
\* the candidates in accepts answer the test prompt
KeyOutcomes == {[sdkRaises |-> TRUE, accepts |-> {}]}
                  \cup [sdkRaises : {FALSE}, accepts : SUBSET Candidates]

\* "Configure API"
ConfigureAPI ==
    \E api_key \in ApiKeys :
        /\ button' = "Configure API"
        /\ IF api_key # ""
           THEN \E env \in KeyOutcomes :
                  LET r == configure_gemini(api_key, env.sdkRaises, env.accepts)
                  IN  /\ gemini_configured' = r.session.configured
                      /\ model' = r.session.model
                      /\ model_name' = r.session.name
                      /\ calls' = <<"configure_gemini">>
                      /\ remote' = r.probes
                      /\ configRet' = r.ret
                      /\ messages' = r.errors \o
                            (IF r.ret = "True"
                             THEN <<Message("success", "Gemini API configured!")>>
                             ELSE <<>>)
           ELSE /\ UNCHANGED <<gemini_configured, model, model_name>>
                /\ calls' = <<>>
                /\ remote' = <<>>
                /\ configRet' = NoValue
                /\ messages' = <<Message("warning", "Please enter your API key")>>
        /\ response' = NoValue
        /\ steps' = <<>>
        /\ RenderSidebar
        /\ UNCHANGED <<task_history, workflows, chat_history, current_report, pureVars>>

\* "Get Help"
GetHelp ==
    \E user_input \in Prompts, outcome \in RemoteOutcomes, t \in Times :
        /\ user_input # "" => CanAppendOther
        /\ button' = "Get Help"
        /\ RenderSidebar
        /\ IF user_input # ""
           THEN LET r == get_ai_response(user_input, "", outcome)
                IN  /\ chat_history' = Append(chat_history,
                              [user |-> user_input, assistant |-> r.text, time |-> t])
                    /\ calls' = r.calls
                    /\ remote' = r.remote
                    /\ response' = r.text
           ELSE /\ UNCHANGED chat_history
                /\ calls' = <<>>
                /\ remote' = <<>>
                /\ response' = NoValue
        /\ messages' = <<>>
        /\ configRet' = NoValue
        /\ steps' = <<>>
        /\ UNCHANGED <<gemini_configured, model, model_name, task_history, workflows,
                       current_report, pureVars>>

\* "Generate Report"
GenerateReport ==
    \E report_type \in ReportTypesTried, t \in Times :
        /\ CanLogTask
        /\ button' = "Generate Report"
        /\ RenderSidebar
        /\ current_report' = generate_report_data(report_type)
        /\ task_history' = LogTask(task_history, TaskEntry("Generated " \o report_type, t))
        /\ messages' = <<Message("success", report_type \o " generated successfully!")>>
        /\ calls' = <<"generate_report_data">>
        /\ NoAdapterCall
        /\ UNCHANGED <<gemini_configured, model, model_name, workflows, chat_history,
                       pureVars>>

\* "Create Presentation"
CreatePresentation ==
    \E pres_topic \in Topics, style \in StylesTried, num_slides \in SlidesTried,
       outcome \in RemoteOutcomes, t \in Times :
        /\ pres_topic # "" => CanLogTask
        /\ button' = "Create Presentation"
        /\ RenderSidebar
        /\ IF pres_topic # ""
           THEN LET r == create_presentation_outline(
                            pres_topic \o " in " \o style \o " style with " \o num_slides
                               \o " slides", outcome)
                IN  /\ task_history' = LogTask(task_history,
                              TaskEntry("Created presentation: " \o pres_topic, t))
                    /\ calls' = r.calls
                    /\ remote' = r.remote
                    /\ response' = r.text
                    /\ messages' = <<Message("success", "Presentation outline created!")>>
           ELSE /\ UNCHANGED task_history
                /\ calls' = <<>>
                /\ remote' = <<>>
                /\ response' = NoValue
                /\ messages' = <<Message("warning",
                                         "Please enter a topic for your presentation")>>
        /\ configRet' = NoValue
        /\ steps' = <<>>
        /\ UNCHANGED <<gemini_configured, model, model_name, workflows, chat_history,
                       current_report, pureVars>>

\* "Run Workflow"
RunWorkflow ==
    \E w \in WorkflowsTried, outcome \in RemoteOutcomes, t \in Times :
        LET workflow_name == WorkflowNames[w]
            r == get_ai_response("Provide a brief summary of a completed " \o workflow_name
                                    \o " workflow execution with all steps successful.",
                                 "", outcome)
        IN  /\ CanLogTask
            /\ button' = "Run Workflow"
            /\ RenderSidebar
            /\ steps' = execute_workflow(workflow_name, {})
            /\ task_history' = LogTask(task_history,
                                      TaskEntry("Ran workflow: " \o workflow_name, t))
            /\ calls' = <<"execute_workflow">> \o r.calls
            /\ remote' = r.remote
            /\ response' = r.text
            /\ messages' = <<Message("success", "Workflow '" \o workflow_name
                                                   \o "' completed successfully!"),
                             Message("info", "**AI Summary:** " \o r.text)>>
            /\ configRet' = NoValue
            /\ UNCHANGED <<gemini_configured, model, model_name, workflows, chat_history,
                           current_report, pureVars>>

\* "Execute Update"
ExecuteUpdate ==
    \E update_type \in UpdateTypesTried, t \in Times :
        /\ CanLogTask
        /\ button' = "Execute Update"
        /\ RenderSidebar
        /\ task_history' = LogTask(task_history, TaskEntry("Sheet update: " \o update_type, t))
        /\ messages' = <<Message("success", "Sheet updated successfully!")>>
        /\ calls' = <<>>
        /\ NoAdapterCall
        /\ UNCHANGED <<gemini_configured, model, model_name, workflows, chat_history,
                       current_report, pureVars>>

\* "Schedule Update"
ScheduleUpdate ==
    \E update_type \in UpdateTypesTried, schedule \in SchedulesTried,
       source \in SourcesTried :
        /\ CanAppendOther
        /\ button' = "Schedule Update"
        /\ RenderSidebar
        /\ workflows' = Append(workflows, [name |-> "Scheduled: " \o update_type,
                                           schedule |-> schedule, source |-> source])
        /\ messages' = <<Message("success", "Update scheduled: " \o schedule)>>
        /\ calls' = <<>>
        /\ NoAdapterCall
        /\ UNCHANGED <<gemini_configured, model, model_name, task_history, chat_history,
                       current_report, pureVars>>

Next ==
    \/ Rerun
    \/ ConfigureAPI
    \/ GetHelp
    \/ GenerateReport
    \/ CreatePresentation
    \/ RunWorkflow
    \/ ExecuteUpdate
    \/ ScheduleUpdate

Spec == Init /\ [][Next]_vars

----------------------------------------------------------------------------
(* execute_workflow as a pure function: the arguments are drawn at the start *)
(* and the function is applied to them, in any session state                  *)

WorkflowNamesTried ==
    {WorkflowNames[i] : i \in 1..Len(WorkflowTable)}
       \cup {"employee onboarding", "Employee Onboarding (HR)", "Monthly Close ",
             "Onboarding", "Payroll Run", ""}

ParamsTried == {{}, {<<"region", "North">>}, {<<"emp_name", "Ada">>, <<"emp_dept", "HR">>}}

InitPure ==
    /\ gemini_configured = FALSE
    /\ model = NoValue
    /\ model_name = NoValue
    /\ task_history = <<>>
    /\ workflows = <<>>
    /\ chat_history = <<>>
    /\ current_report = NoReport
    /\ button = NoValue
    /\ shownTasksRun = 0
    /\ shownWorkflows = 0
    /\ shownRecent = <<>>
    /\ messages = <<>>
    /\ calls = <<>>
    /\ remote = <<>>
    /\ configRet = NoValue
    /\ response = NoValue
    /\ steps = <<>>
    /\ wfName \in WorkflowNamesTried
    /\ wfParams \in ParamsTried
    /\ wfResult = <<>>
    /\ wfDone = FALSE

ApplyWorkflow ==
    /\ ~wfDone
    /\ wfResult' = execute_workflow(wfName, wfParams)
    /\ wfDone' = TRUE
    /\ UNCHANGED <<wfName, wfParams, sessionVars, runVars>>

NextPure ==
    \/ ApplyWorkflow
    \/ ConfigureAPI

SpecPure == InitPure /\ [][NextPure]_vars

----------------------------------------------------------------------------
(* Properties *)

StartsWith(s, pre) == Len(s) >= Len(pre) /\ SubSeq(s, 1, Len(pre)) = pre

\* the run of the last page entered this function
Called(f) == \E i \in 1..Len(calls) : calls[i] = f

\* the run of the last page logged a task
TaskLogged ==
    \/ button \in {"Generate Report", "Run Workflow", "Execute Update"}
    \/ button = "Create Presentation" /\ calls # <<>>

\* the key of the last configure_gemini call was rejected by all three candidates
AllRejected ==
    /\ button = "Configure API"
    /\ Len(remote) = 3
    /\ \A i \in 1..3 : ~remote[i].ok

CandidateOrder == <<"gemini-2.5-flash", "gemini-2.0-flash", "gemini-1.5-flash-latest">>

\* C1: while gemini_configured is false, every get_ai_response call returns
\* the fixed "Please configure your Gemini API key first." string and invokes
\* generate_content not once.
C1_Unconfigured ==
    [][(~gemini_configured /\ Called("get_ai_response")')
          => /\ response' = "Please configure your Gemini API key first."
             /\ remote' = <<>>]_vars

C1_Witness ==
    /\ ~gemini_configured
    /\ Called("get_ai_response")
    /\ response = PleaseConfigure
    /\ button = "Run Workflow"

\* C2, as claimed: a configure_gemini call whose key all three candidates
\* reject returns False and the configured flag is false after the call,
\* whatever came before.
C2_Original ==
    AllRejected => configRet = "False" /\ ~gemini_configured

\* C2, amended: a configure_gemini call whose key all three candidates reject
\* returns False and leaves the configured flag, the handle and the identifier
\* as they were before the call; the flag is false after it exactly when no
\* earlier call succeeded.
C2_Amended ==
    [][AllRejected' => /\ configRet' = "False"
                       /\ gemini_configured' = gemini_configured
                       /\ model' = model
                       /\ model_name' = model_name]_vars

C2_Witness ==
    /\ AllRejected
    /\ configRet = "False"
    /\ gemini_configured
    /\ model_name = "gemini-2.0-flash"

\* C3: configure_gemini probes the candidates in the order gemini-2.5-flash,
\* gemini-2.0-flash, gemini-1.5-flash-latest with the test prompt, stops at the
\* first that accepts, records its identifier and handle and returns True.
C3_ProbeOrder ==
    (button = "Configure API" /\ configRet # NoValue) =>
        /\ Len(remote) <= 3
        /\ \A j \in 1..Len(remote) :
              /\ remote[j].model = GenerativeModel(CandidateOrder[j])
              /\ remote[j].prompt = "Say 'connected' in one word"
              /\ j < Len(remote) => ~remote[j].ok
        /\ configRet = "True" <=> (remote # <<>> /\ remote[Len(remote)].ok)
        /\ configRet = "True" =>
              /\ gemini_configured
              /\ model_name = CandidateOrder[Len(remote)]
              /\ model = remote[Len(remote)].model
        /\ (configRet = "False" /\ remote # <<>>) => Len(remote) = 3

C3_Witness ==
    /\ button = "Configure API"
    /\ configRet = "True"
    /\ Len(remote) = 2
    /\ ~remote[1].ok
    /\ remote[2].ok
    /\ model_name = "gemini-2.0-flash"

Min(a, b) == IF a <= b THEN a ELSE b

\* C4: every task-logging run appends exactly one entry, its own, at the end of
\* task_history and no run removes or reorders an entry, so N such runs leave
\* N entries in call order; Recent Activity draws the last 5 entries of the
\* list it reads and the list keeps them all.
C4_History ==
    [][/\ IF TaskLogged'
          THEN /\ Len(task_history') = Len(task_history) + 1
               /\ SubSeq(task_history', 1, Len(task_history)) = task_history
               /\ LET name == task_history'[Len(task_history')].name
                  IN  \/ button' = "Generate Report" /\ StartsWith(name, "Generated ")
                      \/ button' = "Create Presentation"
                            /\ StartsWith(name, "Created presentation: ")
                      \/ button' = "Run Workflow" /\ StartsWith(name, "Ran workflow: ")
                      \/ button' = "Execute Update" /\ StartsWith(name, "Sheet update: ")
          ELSE task_history' = task_history
       /\ Len(shownRecent') = Min(5, Len(task_history))
       /\ \A k \in 1..Len(shownRecent') :
             shownRecent'[k] = task_history[Len(task_history) - Len(shownRecent') + k]]_vars

C4_Witness ==
    /\ Len(task_history) = 6
    /\ shownTasksRun = 6
    /\ Len(shownRecent) = 5
    /\ shownRecent[1] = task_history[2]
    /\ task_history[1].name # task_history[6].name

\* C5: when generate_content raises in a configured session, get_ai_response
\* returns "Error getting AI response: " followed by the exception text, and
\* the configured flag, the handle and the identifier stay as they were.
C5_ErrorString ==
    [][(/\ gemini_configured
        /\ Called("get_ai_response")'
        /\ remote' # <<>>
        /\ ~remote'[Len(remote')].ok)
          => /\ StartsWith(response', "Error getting AI response: ")
             /\ response' = "Error getting AI response: " \o remote'[Len(remote')].exc
             /\ remote'[Len(remote')].exc # ""
             /\ gemini_configured' = gemini_configured
             /\ model' = model
             /\ model_name' = model_name]_vars

C5_Witness ==
    /\ gemini_configured
    /\ button = "Get Help"
    /\ remote # <<>>
    /\ ~remote[1].ok
    /\ response = "Error getting AI response: 429 quota exceeded"
    /\ chat_history # <<>>
    /\ chat_history[Len(chat_history)].assistant = response

\* the last page run handled a button whose text input was empty
EmptyInputRun ==
    /\ button \in {"Get Help", "Create Presentation", "Configure API"}
    /\ calls = <<>>

\* C6, as claimed: a press of a button whose text input is empty surfaces a
\* warning, makes no AI request and appends nothing to chat_history or
\* task_history.
C6_Original ==
    [][EmptyInputRun' => /\ \E i \in 1..Len(messages') : messages'[i].kind = "warning"
                         /\ remote' = <<>>
                         /\ chat_history' = chat_history
                         /\ task_history' = task_history]_vars

\* the step descriptions the four workflows are documented to play back
FixedSteps(name) ==
    IF name = "Employee Onboarding"
    THEN <<"Create employee record", "Generate credentials", "Assign to department",
           "Send welcome email", "Schedule orientation">>
    ELSE IF name = "Sales Pipeline Update"
    THEN <<"Fetch CRM data", "Update deal stages", "Calculate forecasts",
           "Generate pipeline report", "Notify sales managers">>
    ELSE IF name = "Invoice Processing"
    THEN <<"Extract invoice data", "Validate amounts", "Match with PO",
           "Route for approval", "Update accounting system">>
    ELSE <<"Reconcile accounts", "Post adjusting entries", "Generate trial balance",
           "Create financial statements", "Archive documents">>

\* C7: for each of the four workflow names execute_workflow returns that name's
\* five (description, "success") pairs, whatever params and the session state
\* are, and the empty list for every other name.
C7_FixedSteps ==
    wfDone =>
        IF wfName \in {"Employee Onboarding", "Sales Pipeline Update",
                       "Invoice Processing", "Monthly Close"}
        THEN /\ Len(wfResult) = 5
             /\ \A i \in 1..5 : wfResult[i] = <<FixedSteps(wfName)[i], "success">>
        ELSE wfResult = <<>>

C7_Witness ==
    /\ wfDone
    /\ wfName = "Monthly Close"
    /\ wfParams # {}
    /\ gemini_configured
    /\ Len(wfResult) = 5
    /\ wfResult[5] = <<"Archive documents", "success">>

\* the calls of the last page run to the AI request or to a mock generator
SideEffectCalls ==
    Cardinality({i \in 1..Len(calls) :
                    calls[i] \in {"get_ai_response", "generate_report_data",
                                  "execute_workflow"}})

\* C8, as claimed: one button press makes at most one call in all to
\* get_ai_response, generate_report_data or execute_workflow.
C8_Original == SideEffectCalls <= 1

\* C8, amended: one button press makes at most one such call, except Run
\* Workflow, which makes exactly two, execute_workflow and then
\* get_ai_response; Execute Update and Schedule Update make none.
C8_Amended ==
    /\ button # "Run Workflow" => SideEffectCalls <= 1
    /\ button = "Run Workflow" => calls = <<"execute_workflow", "get_ai_response">>
    /\ button \in {"Execute Update", "Schedule Update"} => SideEffectCalls = 0

C8_Witness ==
    /\ button = "Run Workflow"
    /\ SideEffectCalls = 2
    /\ Len(steps) = 5

\* C9, as claimed: the page drawn in the run that handled a writing action
\* shows the new state: Tasks Run is the length of task_history, Workflows the
\* length of the scheduled list, and Recent Activity ends with the new entry.
C9_Original ==
    (TaskLogged \/ button = "Schedule Update") =>
        /\ shownTasksRun = Len(task_history)
        /\ shownWorkflows = Len(workflows)
        /\ TaskLogged => /\ shownRecent # <<>>
                         /\ shownRecent[Len(shownRecent)] = task_history[Len(task_history)]

\* C10: whenever gemini_configured is true a handle and one of the three
\* candidate identifiers are stored, the handle being that candidate's, also
\* after a later configure_gemini call that fails; get_ai_response never finds
\* the handle missing.
C10_ConfiguredHasModel ==
    /\ gemini_configured =>
          /\ model # NoValue
          /\ model_name \in {"gemini-2.5-flash", "gemini-2.0-flash",
                             "gemini-1.5-flash-latest"}
          /\ model = GenerativeModel(model_name)
    /\ response # ErrorPrefix \o NoModelAttribute

C10_Witness ==
    /\ gemini_configured
    /\ button = "Configure API"
    /\ configRet = "False"
    /\ model = GenerativeModel("gemini-1.5-flash-latest")

====
